---- MODULE Spec2Model ----
(***************************************************************************)
(* PatchySan dataset (patchy/patchy.py): materialisation of the train,     *)
(* eval and train_eval record files in data_dir by the constructor, the    *)
(* epoch-size properties read from the count files, and the read-time      *)
(* feature gather (_map_features).                                         *)
(*                                                                         *)
(* Spec        one step = one call of PatchySan(...) or PatchySan.create   *)
(*             on the same data_dir, possibly aborted by a fatal error.    *)
(* SpecGather  the pure function PatchySan.read applied to bounded inputs. *)
(***************************************************************************)
EXTENDS Integers, Sequences, FiniteSets, TLC

\* ------------------------------------------------------------- bounds
MaxExamples == 2
MaxEpochs == 2
MaxFaultAfter == 2
MaxCalls == 2
MaxGraphNodes == 2
NumChannels == 1
MaxNeighborhoodSize == 2

\* ------------------------------------------------- module constants
FORCE_WRITE == FALSE
WRITE_NUM_EPOCHS == 1
DISTORT_INPUTS == FALSE
NUM_NODES == 100
NODE_STRIDE == 1
NEIGHBORHOOD_SIZE == 9

INFO_FILENAME == "info.json"
TRAIN_FILENAME == "train.tfrecords"
TRAIN_INFO_FILENAME == "train_info.json"
TRAIN_EVAL_FILENAME == "train_eval.tfrecords"
TRAIN_EVAL_INFO_FILENAME == "train_eval_info.json"
EVAL_FILENAME == "eval.tfrecords"
EVAL_INFO_FILENAME == "eval_info.json"

FileNames ==
    {INFO_FILENAME, TRAIN_FILENAME, TRAIN_INFO_FILENAME, TRAIN_EVAL_FILENAME,
     TRAIN_EVAL_INFO_FILENAME, EVAL_FILENAME, EVAL_INFO_FILENAME}

RecordFiles == {TRAIN_FILENAME, EVAL_FILENAME, TRAIN_EVAL_FILENAME}

\* Python's None, and the __name__ of the two default strategies.
None == "None"
scanline == "scanline"
neighborhoods_weights_to_root == "neighborhoods_weights_to_root"

\* A file that does not exist, and a file holding the sequence data.
NoFile == [exists |-> FALSE, data |-> <<>>]
File(data) == [exists |-> TRUE, data |-> data]

Exists(fs, name) == fs[name].exists

Min(a, b) == IF a <= b THEN a ELSE b
Max(a, b) == IF a >= b THEN a ELSE b

VARIABLES
    dirExists,   \* data_dir exists
    files,       \* FileNames -> file: the content of data_dir
    wargs,       \* RecordFiles -> the arguments of the _write call that
                 \* created the file (history variable), <<>> when none
    calls,       \* the number of constructor calls so far
    allOk,       \* every constructor call so far returned without error
    allValid,    \* every constructor call so far had valid static parameters
    last,        \* the latest constructor call: its arguments, the object
                 \* it built, the files it found and those it wrote, its
                 \* output and how it ended
    nodes,       \* gather: the record's node feature matrix
    neighborhood,\* gather: the record's flattened neighborhood index table
    result       \* gather: what read returned

vars ==
    <<dirExists, files, wargs, calls, allOk, allValid, last, nodes,
      neighborhood, result>>

\* ------------------------------------------------------ collaborators
\* A data set as the pipeline sees it: its three epoch sizes
\* (num_examples_per_epoch_for_train / _eval / _train_eval).
Datasets ==
    {[train |-> n, eval |-> MaxExamples + 1 - n,
      train_eval |-> MaxExamples + 1 - n] : n \in 1..MaxExamples}

\* The grapher: only its two channel counts are read.
Grapher == [num_node_channels |-> NumChannels, num_edge_channels |-> 1]

\* The strategy registries (patchy/helper, name -> function); a function is
\* represented by its __name__.
labelings == {scanline}
neighb == {neighborhoods_weights_to_root}

\* dict.get(key): the registered function, or None.
RegistryGet(registry, name) == IF name \in registry THEN name ELSE None

\* config.get(key, default) on a configuration object given as a function.
ConfigGet(config, key, default) ==
    IF key \in DOMAIN config THEN config[key] ELSE default

\* data.iterator(dataset, eval_data, distort_inputs, num_epochs, shuffle):
\* the examples it delivers, num_epochs passes over the split (the eval
\* split with eval_data, the train split without).  One order per sweep is
\* modelled, the data set's; shuffle only permutes a pass.
iterator(dataset, eval_data, distort_inputs, num_epochs, shuffle) ==
    LET n == IF eval_data THEN dataset.eval ELSE dataset.train
    IN  [k \in 1..(n * num_epochs) |->
            [image |-> ((k - 1) % n) + 1, eval_data |-> eval_data,
             distorted |-> distort_inputs]]

\* node_sequence and the neighborhood assembly reject a non-positive stride
\* and a non-positive neighborhood size when the transform is built, before
\* the first record; num_nodes <= 0 gives an empty node sequence, no error.
HelpersReject(node_stride, neighborhood_size) ==
    node_stride <= 0 \/ neighborhood_size <= 0

\* ------------------------------------------------------------ _write
\* No injected failure; a failure is [file, after]: the sweep writing file
\* dies after `after` records, or before _done when it delivers fewer
\* (-1: its writer cannot be opened).
NoFault == [file |-> None, after |-> 0]

Faults == [file : RecordFiles, after : -1..MaxFaultAfter]

\* _before(image, label): the record of one example; the neighborhood table
\* has shape [num_nodes, neighborhood_size].
_before(example, node_labeling, num_nodes, node_stride, neighborhood_assembly, neighborhood_size) ==
    [nodes |-> example, neighborhood |-> <<num_nodes, neighborhood_size>>,
     label |-> example.image]

\* The number of binary digits of the natural number w (0 for 0).
RECURSIVE BitLength(_)
BitLength(w) == IF w = 0 THEN 0 ELSE 1 + BitLength(w \div 2)

\* 100.0 * index / last_index is the double nearest to the quotient.  For a
\* quotient a/20 with a odd and not a multiple of 5 (a decimal half that no
\* double holds): whether that double lies above a/20.  a/20 = (w + s/5)/4;
\* the double keeps 53 significant bits, f of them from the expansion of
\* s/5, and is rounded up iff what is left, (s * 2^f mod 5)/5 of the last
\* bit, exceeds a half.
DoubleIsAbove(a) ==
    LET w == a \div 5
        s == a % 5
        f == IF w > 0 THEN 53 - BitLength(w)
             ELSE 53 + (IF s = 1 THEN 2 ELSE IF s = 2 THEN 1 ELSE 0)
        left == (s * <<1, 2, 4, 3>>[(f % 4) + 1]) % 5
    IN  left >= 3

\* '{:.1f}'.format(100.0 * index / last_index), in tenths of a percent: the
\* double rounded to the nearest tenth.  The double is on the same side of
\* every half tenth as the exact quotient, so only an exact decimal half
\* (q + 1/2 tenths, the quotient (2q+1)/20) depends on the double: x.25 and
\* x.75 are held exactly and go to the even tenth, any other half goes to
\* the side the double lies on (0.05 is held as 0.05000000000000000277 and
\* prints 0.1, 0.15 as 0.1499999999999999944 and prints 0.1).
Percent(index, last_index) ==
    LET q == (1000 * index) \div last_index
        r == (1000 * index) % last_index
    IN  IF 2 * r < last_index THEN q
        ELSE IF 2 * r > last_index THEN q + 1
        ELSE IF (2 * q + 1) % 5 = 0
             THEN (IF q % 2 = 0 THEN q ELSE q + 1)
             ELSE (IF DoubleIsAbove(2 * q + 1) THEN q + 1 ELSE q)

\* _each(output, index, last_index): write_tfrecord, then the progress line
\* '\r>> Saving graphs to <file> <percent>%'.  With last_index = 0 the
\* division raises ZeroDivisionError after the record is written.
_each(m, tfrecord_file, output, index, last_index) ==
    IF last_index = 0
    THEN [m EXCEPT
             !.files[tfrecord_file] = File(Append(@.data, output)),
             !.status = "ZeroDivisionError"]
    ELSE [m EXCEPT
             !.files[tfrecord_file] = File(Append(@.data, output)),
             !.stdout = Append(@, [file |-> tfrecord_file,
                                   percent |-> Percent(index, last_index)])]

\* Mutant of _done: the count is the zero-based index of the last record.
_done_zero_based(m, tfrecord_file, info_file, index, last_index) ==
    [m EXCEPT
        !.stdout = Append(@, [file |-> tfrecord_file, saved |-> index]),
        !.files[info_file] = File(<<[count |-> index - 1]>>),
        !.wrote = @ \cup {info_file}]

\* _done(index, last_index): the message, then {'count': index}.
_done(m, tfrecord_file, info_file, index, last_index) ==
    [m EXCEPT
        !.stdout = Append(@, [file |-> tfrecord_file, saved |-> index]),
        !.files[info_file] = File(<<[count |-> index]>>),
        !.wrote = @ \cup {info_file}]

\* iterate(_each, _before, _done): one call of each per delivered example,
\* index = 1..last_index, then done(last_index, last_index).  stop >= 0: a
\* fatal error ends the sweep once `stop` records are written.
RECURSIVE iterate(_, _, _, _, _, _, _)
iterate(m, delivered, tfrecord_file, info_file, w, stop, index) ==
    LET last_index == Len(delivered)
    IN  IF index - 1 = stop
        THEN [m EXCEPT !.status =
                 IF HelpersReject(w.node_stride, w.neighborhood_size)
                 THEN "ConfigurationError" ELSE "aborted"]
        ELSE IF index > last_index
        THEN _done(m, tfrecord_file, info_file, last_index, last_index)
        ELSE LET written ==
                     _each(m, tfrecord_file,
                           _before(delivered[index], w.node_labeling,
                                   w.num_nodes, w.node_stride,
                                   w.neighborhood_assembly,
                                   w.neighborhood_size),
                           index, last_index)
             IN  IF written.status # "run" THEN written
                 ELSE iterate(written, delivered, tfrecord_file, info_file,
                              w, stop, index + 1)

_write(m, dataset, grapher, eval_data, tfrecord_file, info_file, write_num_epochs, distort_inputs, shuffle, node_labeling, num_nodes, node_stride, neighborhood_assembly, neighborhood_size, fault) ==
    LET w == [dataset |-> dataset, eval_data |-> eval_data,
              write_num_epochs |-> write_num_epochs,
              distort_inputs |-> distort_inputs, shuffle |-> shuffle,
              node_labeling |-> node_labeling, num_nodes |-> num_nodes,
              node_stride |-> node_stride,
              neighborhood_assembly |-> neighborhood_assembly,
              neighborhood_size |-> neighborhood_size]
        delivered == iterator(dataset, eval_data, distort_inputs,
                              write_num_epochs, shuffle)
        hit == fault.file = tfrecord_file
        stop == IF HelpersReject(node_stride, neighborhood_size) THEN 0
                ELSE IF hit THEN Min(fault.after, Len(delivered)) ELSE -2
        \* tf.python_io.TFRecordWriter(tfrecord_file) creates the file.
        opened == [m EXCEPT !.files[tfrecord_file] = File(<<>>),
                            !.wargs[tfrecord_file] = <<w>>,
                            !.wrote = @ \cup {tfrecord_file}]
    IN  IF hit /\ fault.after = -1
        THEN [m EXCEPT !.status = "aborted"]
        ELSE iterate(opened, delivered, tfrecord_file, info_file, w, stop, 1)

\* ------------------------------------------------- PatchySan.__init__
\* Mutant of DeleteRecursively: force_write leaves the directory as it is.
DeleteRecursively_skipped(m) == m

\* tf.gfile.DeleteRecursively(data_dir): the directory and all it holds.
DeleteRecursively(m) ==
    [m EXCEPT !.dir = FALSE, !.files = [f \in FileNames |-> NoFile],
              !.wargs = [f \in RecordFiles |-> <<>>]]

\* The descriptor written to info.json.
Descriptor(a, node_labeling, neighborhood_assembly) ==
    [max_num_epochs |-> a.write_num_epochs,
     distort_inputs |-> a.distort_inputs,
     node_labeling |-> node_labeling,
     num_nodes |-> a.num_nodes,
     num_node_channels |-> a.grapher.num_node_channels,
     node_stride |-> a.node_stride,
     neighborhood_assembly |-> neighborhood_assembly,
     neighborhood_size |-> a.neighborhood_size,
     num_edge_channels |-> a.grapher.num_edge_channels]

\* Whether the descriptor is (re)written: it is missing, or force_write.
WritesDescriptor(m, force_write) ==
    ~Exists(m.files, INFO_FILENAME) \/ force_write

\* Mutant of NeedsWrite: every call writes every split again.
NeedsWrite_always(m, tfrecord_file) == TRUE

\* Whether a split is (re)written: its record file is missing.
NeedsWrite(m, tfrecord_file) == ~Exists(m.files, tfrecord_file)

\* Whether the train_eval split is wanted at all.
WantsTrainEval(distort_inputs) == distort_inputs

\* The number of passes each split is written with (EvalEpochs_as_train is
\* a mutant: the eval split written with write_num_epochs passes).
TrainEpochs(write_num_epochs) == write_num_epochs
EvalEpochs_as_train(write_num_epochs) == write_num_epochs
EvalEpochs(write_num_epochs) == 1
TrainEvalEpochs(write_num_epochs) == 1

\* The constructor on the directory pre = [dir, files, wargs] with the
\* arguments a, and the failure fault injected into its sweeps.  The result
\* carries the directory, what was written, the output and the status:
\* "ok", or the kind of the error that ended the constructor.
PatchySan__init__(pre, a, fault) ==
    LET node_labeling ==
            IF a.node_labeling = None THEN scanline ELSE a.node_labeling
        neighborhood_assembly ==
            IF a.neighborhood_assembly = None
            THEN neighborhoods_weights_to_root ELSE a.neighborhood_assembly
        self == [dataset |-> a.dataset, grapher |-> a.grapher,
                 num_nodes |-> a.num_nodes,
                 neighborhood_size |-> a.neighborhood_size,
                 distort_inputs |-> a.distort_inputs]
        m0 == [dir |-> pre.dir, files |-> pre.files, wargs |-> pre.wargs,
               wrote |-> {}, stdout |-> <<>>, status |-> "run", self |-> self]
        m1 == IF m0.dir /\ a.force_write THEN DeleteRecursively(m0) ELSE m0
        m2 == [m1 EXCEPT !.dir = TRUE]
        m3 == IF WritesDescriptor(m2, a.force_write)
              THEN [m2 EXCEPT
                       !.files[INFO_FILENAME] =
                           File(<<Descriptor(a, node_labeling,
                                             neighborhood_assembly)>>),
                       !.wrote = @ \cup {INFO_FILENAME}]
              ELSE m2
        m4 == IF NeedsWrite(m3, TRAIN_FILENAME)
              THEN _write(m3, a.dataset, a.grapher, FALSE, TRAIN_FILENAME,
                          TRAIN_INFO_FILENAME,
                          TrainEpochs(a.write_num_epochs), a.distort_inputs,
                          TRUE, node_labeling, a.num_nodes, a.node_stride,
                          neighborhood_assembly, a.neighborhood_size, fault)
              ELSE m3
        m5 == IF m4.status = "run" /\ NeedsWrite(m4, EVAL_FILENAME)
              THEN _write(m4, a.dataset, a.grapher, TRUE, EVAL_FILENAME,
                          EVAL_INFO_FILENAME, EvalEpochs(a.write_num_epochs),
                          a.distort_inputs, FALSE, node_labeling, a.num_nodes,
                          a.node_stride, neighborhood_assembly,
                          a.neighborhood_size, fault)
              ELSE m4
        m6 == IF /\ m5.status = "run"
                 /\ WantsTrainEval(a.distort_inputs)
                 /\ NeedsWrite(m5, TRAIN_EVAL_FILENAME)
              THEN _write(m5, a.dataset, a.grapher, FALSE,
                          TRAIN_EVAL_FILENAME, TRAIN_EVAL_INFO_FILENAME,
                          TrainEvalEpochs(a.write_num_epochs),
                          a.distort_inputs, FALSE, node_labeling, a.num_nodes,
                          a.node_stride, neighborhood_assembly,
                          a.neighborhood_size, fault)
              ELSE m5
    IN  [m6 EXCEPT !.status = IF @ = "run" THEN "ok" ELSE @]

\* PatchySan.create(config): the arguments it passes to the constructor.
CreateArgs(config) ==
    [dataset |-> config["dataset"],
     grapher |-> config["grapher"],
     force_write |-> ConfigGet(config, "force_write", FORCE_WRITE),
     write_num_epochs |->
         ConfigGet(config, "write_num_epochs", WRITE_NUM_EPOCHS),
     distort_inputs |-> ConfigGet(config, "distort_inputs", DISTORT_INPUTS),
     node_labeling |->
         RegistryGet(labelings, ConfigGet(config, "node_labeling", None)),
     num_nodes |-> ConfigGet(config, "num_nodes", NUM_NODES),
     node_stride |-> ConfigGet(config, "node_stride", NODE_STRIDE),
     neighborhood_assembly |->
         RegistryGet(neighb, ConfigGet(config, "neighborhood_assembly", None)),
     neighborhood_size |->
         ConfigGet(config, "neighborhood_size", NEIGHBORHOOD_SIZE)]

\* ------------------------------------------------------- properties
train_filenames(self) == <<TRAIN_FILENAME>>

eval_filenames(self) == <<EVAL_FILENAME>>

train_eval_filenames(self) ==
    IF self.distort_inputs THEN <<TRAIN_EVAL_FILENAME>>
    ELSE <<TRAIN_FILENAME>>

\* open(info)/json.load(f)['count']: "IOError" when the file is missing.
ReadCount(fs, info_file) ==
    IF Exists(fs, info_file) THEN fs[info_file].data[1].count ELSE -1

\* The three properties; -1 stands for the IOError of a missing count file.
num_examples_per_epoch_for_train(fs, self) ==
    LET count == ReadCount(fs, TRAIN_INFO_FILENAME)
    IN  IF count < 0 THEN -1 ELSE Min(count, self.dataset.train)

num_examples_per_epoch_for_eval(fs, self) ==
    LET count == ReadCount(fs, EVAL_INFO_FILENAME)
    IN  IF count < 0 THEN -1 ELSE Min(count, self.dataset.eval)

num_examples_per_epoch_for_train_eval(fs, self) ==
    IF self.distort_inputs
    THEN LET count == ReadCount(fs, TRAIN_EVAL_INFO_FILENAME)
         IN  IF count < 0 THEN -1 ELSE Min(count, self.dataset.train_eval)
    ELSE self.dataset.train

\* ------------------------------------------------- constructor calls
\* The arguments every call below starts from.
BaseArgs(d) ==
    [dataset |-> d, grapher |-> Grapher, force_write |-> FALSE,
     write_num_epochs |-> 1, distort_inputs |-> FALSE,
     node_labeling |-> None, num_nodes |-> 1, node_stride |-> 1,
     neighborhood_assembly |-> None, neighborhood_size |-> 1]

SomeDataset == [train |-> 1, eval |-> MaxExamples, train_eval |-> MaxExamples]

\* Every data set with every force_write, write_num_epochs, distort_inputs.
OptionArgs ==
    {[BaseArgs(d) EXCEPT !.force_write = f, !.write_num_epochs = e,
                         !.distort_inputs = di] :
        d \in Datasets, f \in BOOLEAN, e \in 1..MaxEpochs, di \in BOOLEAN}

\* One static parameter changed: to another valid value, or to an invalid one.
StaticArgs ==
    LET b(f, di) == [BaseArgs(SomeDataset) EXCEPT !.force_write = f,
                                                   !.distort_inputs = di]
    IN  UNION {{[b(f, di) EXCEPT !.node_labeling = scanline],
                [b(f, di) EXCEPT !.num_nodes = 2],
                [b(f, di) EXCEPT !.num_nodes = 0],
                [b(f, di) EXCEPT !.node_stride = 0],
                [b(f, di) EXCEPT !.neighborhood_size = 0]} :
               f \in BOOLEAN, di \in BOOLEAN}

\* The arguments of a direct constructor call.
InitArgs == OptionArgs \cup StaticArgs

\* The calls a failure is injected into.
FaultArgs ==
    {[BaseArgs(d) EXCEPT !.distort_inputs = di] :
        d \in Datasets, di \in BOOLEAN}

\* The configuration objects tried: the bare one (every default applies),
\* and ones naming one strategy: a registered one, or one in no registry.
ConfigNames ==
    {[node_labeling |-> scanline], [node_labeling |-> "bogus"],
     [neighborhood_assembly |-> "bogus"]}

Configs ==
    {[dataset |-> SomeDataset, grapher |-> Grapher]} \cup
    {[dataset |-> SomeDataset, grapher |-> Grapher, force_write |-> f,
      distort_inputs |-> di, num_nodes |-> 1, neighborhood_size |-> 1] @@ nm :
        f \in BOOLEAN, di \in BOOLEAN, nm \in ConfigNames}

NotRead == [status |-> "none", data |-> <<>>]

NoCall ==
    [via |-> "none", requested |-> <<>>, args |-> <<>>, self |-> <<>>,
     found |-> {}, wrote |-> {}, stdout |-> <<>>, status |-> "none"]

Init ==
    /\ dirExists = FALSE
    /\ files = [f \in FileNames |-> NoFile]
    /\ wargs = [f \in RecordFiles |-> <<>>]
    /\ last = NoCall
    /\ calls = 0
    /\ allOk = TRUE
    /\ allValid = TRUE
    /\ nodes = <<>>
    /\ neighborhood = <<>>
    /\ result = NotRead

\* The static parameters of a call are valid: positive numbers, and every
\* strategy name given is in its registry.
ValidStatics(requested, a) ==
    /\ a.node_stride > 0
    /\ a.neighborhood_size > 0
    /\ a.num_nodes > 0
    /\ requested.node_labeling \in labelings \cup {None}
    /\ requested.neighborhood_assembly \in neighb \cup {None}

\* One constructor call, from its first line to its return or its error.
Call(via, requested, a, fault) ==
    /\ calls' = calls + 1
    /\ allValid' = (allValid /\ ValidStatics(requested, a))
    /\ \E r \in {PatchySan__init__(
                    [dir |-> dirExists, files |-> files, wargs |-> wargs],
                    a, fault)} :
        /\ dirExists' = r.dir
        /\ files' = r.files
        /\ wargs' = r.wargs
        /\ allOk' = (allOk /\ r.status = "ok")
        /\ last' = [via |-> via, requested |-> requested, args |-> a,
                    self |-> r.self,
                    found |-> {f \in FileNames : Exists(files, f)},
                    wrote |-> r.wrote, stdout |-> r.stdout,
                    status |-> r.status]
    /\ UNCHANGED <<nodes, neighborhood, result>>

\* PatchySan(dataset, grapher, data_dir, ...)
New(a, fault) ==
    /\ calls < MaxCalls
    /\ Call("init",
            [node_labeling |-> a.node_labeling,
             neighborhood_assembly |-> a.neighborhood_assembly],
            a, fault)

\* PatchySan.create(config)
Create(config) ==
    /\ calls < MaxCalls
    /\ Call("create",
            [node_labeling |-> ConfigGet(config, "node_labeling", None),
             neighborhood_assembly |->
                 ConfigGet(config, "neighborhood_assembly", None)],
            CreateArgs(config), NoFault)

Next ==
    \/ \E a \in InitArgs : New(a, NoFault)
    \/ \E a \in FaultArgs, fault \in Faults : New(a, fault)
    \/ \E config \in Configs : Create(config)

Spec == Init /\ [][Next]_vars

\* ------------------------------------------------------ PatchySan.read
\* tf.strided_slice(nodes, [i], [i+1], [1]) for i >= 0: row i of the matrix
\* (rows are numbered from 0), or no row at all when i is past its end.
strided_slice(ns, i) == IF i < Len(ns) THEN <<ns[i + 1]>> ELSE <<>>

\* tf.zeros([1, C])
zeros(C) == <<[c \in 1..C |-> 0]>>

\* tf.where(condition, x, y) with a scalar condition: x and y must have the
\* same shape, and then it is x where the condition holds and y elsewhere.
tf_where(condition, x, y) ==
    IF Len(x) # Len(y)
    THEN [status |-> "InvalidArgumentError", data |-> <<>>]
    ELSE [status |-> "ok", data |-> IF condition THEN x ELSE y]

\* tf.maximum(node, 0) < 0, the condition of the tf.where.
IsNegative(i) == i < 0

_map_features(ns, node, C) ==
    LET i == Max(node, 0)
        positive == strided_slice(ns, i)
        negative == zeros(C)
    IN  tf_where(IsNegative(i), negative, positive)

\* read: _map_features over the flattened table (its cells are integers,
\* which tf.cast leaves as they are), reshaped to
\* [num_nodes, neighborhood_size, C]; an error in one cell fails the read.
read(self, ns, table) ==
    LET C == self.grapher.num_node_channels
        cells == [k \in 1..Len(table) |-> _map_features(ns, table[k], C)]
    IN  IF \E k \in 1..Len(table) : cells[k].status # "ok"
        THEN [status |-> "InvalidArgumentError", data |-> <<>>]
        ELSE [status |-> "ok",
              data |-> [r \in 1..self.num_nodes |->
                           [c \in 1..self.neighborhood_size |->
                               cells[(r - 1) * self.neighborhood_size + c]
                                   .data[1]]]]

\* The object read is called on: one row of MaxNeighborhoodSize cells.
Reader ==
    [grapher |-> Grapher, num_nodes |-> 1,
     neighborhood_size |-> MaxNeighborhoodSize]

FeatureVectors == [1..NumChannels -> {0, 1}]

NodeMatrices ==
    UNION {[1..n -> FeatureVectors] : n \in 0..MaxGraphNodes}

\* Every index a cell may hold: ABSENT (-1), another negative number, a
\* node of the largest graph, and one index past it.
Tables ==
    [1..(Reader.num_nodes * Reader.neighborhood_size) -> -2..MaxGraphNodes]

InitGather ==
    /\ dirExists = FALSE
    /\ files = [f \in FileNames |-> NoFile]
    /\ wargs = [f \in RecordFiles |-> <<>>]
    /\ last = NoCall
    /\ calls = 0
    /\ allOk = TRUE
    /\ allValid = TRUE
    /\ nodes \in NodeMatrices
    /\ neighborhood \in Tables
    /\ result = NotRead

Read ==
    /\ result = NotRead
    /\ result' = read(Reader, nodes, neighborhood)
    /\ UNCHANGED <<dirExists, files, wargs, calls, allOk, allValid, last,
                   nodes, neighborhood>>

NextGather == Read

SpecGather == InitGather /\ [][NextGather]_vars

\* ============================================================ claims
\* The count file of a record file.
InfoOf(f) ==
    CASE f = TRAIN_FILENAME -> TRAIN_INFO_FILENAME
      [] f = EVAL_FILENAME -> EVAL_INFO_FILENAME
      [] f = TRAIN_EVAL_FILENAME -> TRAIN_EVAL_INFO_FILENAME

Called == last.status # "none"
Succeeded == last.status = "ok"

IsPrefix(p, q) == Len(p) <= Len(q) /\ \A k \in 1..Len(p) : p[k] = q[k]

\* ---- C1
\* The cells of the table are all ABSENT (-1) or nodes of the graph.
WellFormedTable ==
    \A k \in 1..Len(neighborhood) : neighborhood[k] \in -1..(Len(nodes) - 1)

CellOf(r, c) == neighborhood[(r - 1) * Reader.neighborhood_size + c]

\* C1: on a non-empty graph and a table of ABSENT and valid cells, read
\* succeeds and every ABSENT cell yields the zero vector, every other cell
\* the features of its node.
C1_AbsentIsZero ==
    (result # NotRead /\ Len(nodes) >= 1 /\ WellFormedTable) =>
        /\ result.status = "ok"
        /\ \A r \in 1..Reader.num_nodes, c \in 1..Reader.neighborhood_size :
              result.data[r][c] =
                  IF CellOf(r, c) = -1 THEN [ch \in 1..NumChannels |-> 0]
                  ELSE nodes[CellOf(r, c) + 1]

\* ---- C6
\* C6: a read of a table holding an index that is neither ABSENT (-1) nor a
\* node of the graph fails.
C6_OutOfRangeIsFatal ==
    (result # NotRead /\ ~WellFormedTable) => result.status # "ok"

\* ---- C2
\* The latest call's static parameters are invalid: a non-positive number,
\* or a strategy name given that is in no registry.
InvalidStatics == ~ValidStatics(last.requested, last.args)

\* C2: a call with invalid static parameters ends in a ConfigurationError
\* and writes no file; an unknown labeling name is not recorded as scanline.
C2_InvalidRejected ==
    (Called /\ InvalidStatics) =>
        /\ last.status = "ConfigurationError"
        /\ last.wrote = {}
        /\ last.found = {f \in FileNames : Exists(files, f)}

\* ---- C3
\* The descriptor d agrees with the arguments w a record file was written
\* with (write_num_epochs is that of the train split's sweep).
DescriptorAgrees(d, w, f) ==
    /\ d.num_nodes = w.num_nodes
    /\ d.node_stride = w.node_stride
    /\ d.neighborhood_size = w.neighborhood_size
    /\ d.node_labeling = w.node_labeling
    /\ d.neighborhood_assembly = w.neighborhood_assembly
    /\ d.distort_inputs = w.distort_inputs
    /\ (f = TRAIN_FILENAME => d.max_num_epochs = w.write_num_epochs)

\* C3: after successful calls only (all with valid parameters), info.json
\* agrees with the write-time configuration of every record file present.
C3_DescriptorCurrent ==
    (Called /\ allOk /\ allValid) =>
        /\ Exists(files, INFO_FILENAME)
        /\ \A f \in RecordFiles :
              Exists(files, f) =>
                  DescriptorAgrees(files[INFO_FILENAME].data[1],
                                   wargs[f][1], f)

\* ---- C4
\* The progress lines and the closing message of the sweep that wrote f.
ProgressOf(f) ==
    SelectSeq(last.stdout,
              LAMBDA line : line.file = f /\ "percent" \in DOMAIN line)

SavedOf(f) ==
    SelectSeq(last.stdout,
              LAMBDA line : line.file = f /\ "saved" \in DOMAIN line)

\* The sweep of f ran in the latest call and reached _done.
SweepCompleted(f) == f \in last.wrote /\ InfoOf(f) \in last.wrote

\* The count file of f holds the number of records in f.
CountIsRecords(f) ==
    /\ files[InfoOf(f)].data = <<[count |-> Len(files[f].data)]>>
    /\ SavedOf(f) = <<[file |-> f, saved |-> Len(files[f].data)]>>

\* C4 (as claimed): a completed sweep leaves count = the number of records,
\* and its k-th progress line reports (k, total): lines of two completed
\* sweeps that report the same figure stand for the same index and total.
C4_ProgressIsIndexAndTotal ==
    \A f \in RecordFiles, g \in RecordFiles :
        (SweepCompleted(f) /\ SweepCompleted(g)) =>
            /\ CountIsRecords(f)
            /\ Len(ProgressOf(f)) = Len(files[f].data)
            /\ \A k \in 1..Len(ProgressOf(f)), j \in 1..Len(ProgressOf(g)) :
                  ProgressOf(f)[k].percent = ProgressOf(g)[j].percent =>
                      /\ k = j
                      /\ Len(ProgressOf(f)) = Len(ProgressOf(g))

\* C4 (amended): a completed sweep leaves count = the number of records in
\* the file = the number of progress lines, and the k-th progress line
\* reports the percentage 100 * k / total to the nearest tenth.
C4_CountIsRecords ==
    \A f \in RecordFiles :
        SweepCompleted(f) =>
            LET n == Len(files[f].data)
            IN  /\ CountIsRecords(f)
                /\ Len(ProgressOf(f)) = n
                /\ \A k \in 1..n :
                      LET t == ProgressOf(f)[k].percent
                      IN  /\ 2 * (t * n - 1000 * k) <= n
                          /\ 2 * (1000 * k - t * n) <= n

C4_Witness ==
    /\ Succeeded
    /\ SweepCompleted(TRAIN_FILENAME)
    /\ Len(files[TRAIN_FILENAME].data) >= 2
    /\ SweepCompleted(EVAL_FILENAME)
    /\ Len(files[EVAL_FILENAME].data) # Len(files[TRAIN_FILENAME].data)

\* ---- C5
\* C5: a successful call on an empty data_dir writes train_eval (records
\* and count) exactly when distort_inputs, train with write_num_epochs
\* passes, eval and train_eval with one pass.
C5_SplitsByConfiguration ==
    (Succeeded /\ last.found = {}) =>
        LET a == last.args
        IN  /\ Exists(files, TRAIN_EVAL_FILENAME) <=> a.distort_inputs
            /\ Exists(files, TRAIN_EVAL_INFO_FILENAME) <=> a.distort_inputs
            /\ Exists(files, TRAIN_FILENAME) /\ Exists(files, EVAL_FILENAME)
            /\ wargs[TRAIN_FILENAME][1].write_num_epochs = a.write_num_epochs
            /\ Len(files[TRAIN_FILENAME].data) =
                   a.write_num_epochs * a.dataset.train
            /\ wargs[EVAL_FILENAME][1].write_num_epochs = 1
            /\ Len(files[EVAL_FILENAME].data) = a.dataset.eval
            /\ a.distort_inputs =>
                   /\ wargs[TRAIN_EVAL_FILENAME][1].write_num_epochs = 1
                   /\ Len(files[TRAIN_EVAL_FILENAME].data) = a.dataset.train

C5_Witness ==
    /\ Succeeded
    /\ last.found = {}
    /\ last.args.distort_inputs
    /\ last.args.write_num_epochs >= 2
    /\ Exists(files, TRAIN_EVAL_INFO_FILENAME)

\* ---- C7
\* What the sweep that wrote f delivers, as records.
DeliveredRecords(f) ==
    LET w == wargs[f][1]
        d == iterator(w.dataset, w.eval_data, w.distort_inputs,
                      w.write_num_epochs, w.shuffle)
    IN  [k \in 1..Len(d) |->
            _before(d[k], w.node_labeling, w.num_nodes, w.node_stride,
                    w.neighborhood_assembly, w.neighborhood_size)]

\* Every record file holds a prefix, in order, of what its sweep delivers.
AppendedInOrder ==
    \A f \in RecordFiles :
        Exists(files, f) => IsPrefix(files[f].data, DeliveredRecords(f))

\* C7: a call without force_write leaves every split whose record file
\* exists as it is: no _write for it, record file and count file unchanged;
\* and record files hold what was delivered, in order.
C7_WrittenOnce ==
    [][(calls' = calls + 1 /\ ~last'.args.force_write) =>
          /\ \A f \in RecordFiles :
                Exists(files, f) =>
                    /\ f \notin last'.wrote
                    /\ InfoOf(f) \notin last'.wrote
                    /\ files'[f] = files[f]
                    /\ files'[InfoOf(f)] = files[InfoOf(f)]
                    /\ wargs'[f] = wargs[f]
          /\ AppendedInOrder']_vars

C7_Witness ==
    /\ Succeeded
    /\ ~last.args.force_write
    /\ TRAIN_FILENAME \in last.found
    /\ Len(files[TRAIN_FILENAME].data) >= 2
    /\ wargs[TRAIN_FILENAME][1].dataset # last.args.dataset
    /\ TRAIN_EVAL_FILENAME \in last.wrote

\* ---- C8
\* The splits the object built by the latest call reads.
RequiredSplits ==
    {TRAIN_FILENAME, EVAL_FILENAME} \cup
    (IF last.self.distort_inputs THEN {TRAIN_EVAL_FILENAME} ELSE {})

\* C8: after a successful call every split it requires has its record file
\* and a count file holding the number of records, whatever sweep aborted
\* before (calls with valid parameters only).
C8_FinishedSplits ==
    (Succeeded /\ allValid) =>
        \A f \in RequiredSplits :
            /\ Exists(files, f)
            /\ Exists(files, InfoOf(f))
            /\ ReadCount(files, InfoOf(f)) = Len(files[f].data)

\* ---- C9
\* The arguments a sweep of the latest call is given, but for the split.
WrittenByLast(f) ==
    LET w == wargs[f][1]
        a == last.args
    IN  /\ w.dataset = a.dataset
        /\ w.distort_inputs = a.distort_inputs
        /\ w.num_nodes = a.num_nodes
        /\ w.node_stride = a.node_stride
        /\ w.neighborhood_size = a.neighborhood_size
        /\ w.node_labeling = files[INFO_FILENAME].data[1].node_labeling
        /\ w.neighborhood_assembly =
               files[INFO_FILENAME].data[1].neighborhood_assembly

\* C9: after a successful call with force_write every file in data_dir was
\* written by that call with its configuration, and train_eval files exist
\* only if it has distort_inputs.
C9_ForceWriteReplacesAll ==
    (Succeeded /\ last.args.force_write) =>
        /\ \A f \in FileNames : Exists(files, f) => f \in last.wrote
        /\ LET d == files[INFO_FILENAME].data[1]
               a == last.args
           IN  /\ d.max_num_epochs = a.write_num_epochs
               /\ d.distort_inputs = a.distort_inputs
               /\ d.num_nodes = a.num_nodes
               /\ d.node_stride = a.node_stride
               /\ d.neighborhood_size = a.neighborhood_size
        /\ \A f \in RecordFiles : Exists(files, f) => WrittenByLast(f)
        /\ ~last.args.distort_inputs =>
               /\ ~Exists(files, TRAIN_EVAL_FILENAME)
               /\ ~Exists(files, TRAIN_EVAL_INFO_FILENAME)

C9_Witness ==
    /\ Succeeded
    /\ last.args.force_write
    /\ ~last.args.distort_inputs
    /\ TRAIN_EVAL_FILENAME \in last.found
    /\ TRAIN_EVAL_INFO_FILENAME \in last.found

\* ---- C10
\* C10: without distort_inputs the train_eval file names and epoch size are
\* those of train, for every recorded train count and data set size.
C10_FallbackIsTrain ==
    (Succeeded /\ allOk /\ allValid /\ ~last.self.distort_inputs
        /\ Exists(files, TRAIN_INFO_FILENAME)) =>
        /\ train_eval_filenames(last.self) = train_filenames(last.self)
        /\ num_examples_per_epoch_for_train_eval(files, last.self) =
               num_examples_per_epoch_for_train(files, last.self)

====
